---- MODULE Spec2Model ----
(***************************************************************************)
(* A model of telegram-coronabot: the composable request parsers of        *)
(* coronabot/parse.py and the conversation of coronabot/handlers.py.       *)
(*                                                                         *)
(* Strings.  A Python str is modelled by its structure under the request   *)
(* patterns:                                                               *)
(*   - an atom is a TLA+ string without comma, dash or line break;         *)
(*   - a field is a sequence of atoms, the atoms joined by " - "           *)
(*     (<<"ieri", "oggi">> is "ieri - oggi", <<"roma">> is "roma");        *)
(*   - a line is a sequence of fields joined by ", ";                      *)
(*   - a text is a sequence of lines.                                      *)
(* The leaf parsers and the interval parser are applied to fields, the two *)
(* request parsers to texts.                                               *)
(*                                                                         *)
(* Values.  Every Python value is a tuple whose first element names its    *)
(* type, so that two values of different types are different.              *)
(***************************************************************************)
EXTENDS Integers, Sequences, FiniteSets, TLC

VARIABLES
    parser,     \* ParserSpec: the Parser instance under test (kind, _result, status, error)
    last,       \* ParserSpec: what the most recent parse call on `parser` did
    got,        \* ParserSpec: what the most recent read of the result accessor did
    conv,       \* Spec: the ConversationHandler's state of each chat
    step        \* Spec: the update handled last, with what its handling did

vars == <<parser, last, got, conv, step>>

(***************************************************************************)
(* Python values                                                           *)
(***************************************************************************)
None == <<"None">>

\* An optional pattern group that did not take part in the match (re gives
\* None for it).  A group that takes part is never empty, so the empty field
\* is free to stand for it.
NoGroup == <<>>

Date(name) == <<"date", name>>

Location(name, tier) == <<"Location", name, <<tier>>>>

DateInterval(start, end) == <<"DateInterval", start, end>>

List(results) == <<"list", results>>

\* An exception of the date resolver that is not a "no date" answer.
Fault == <<"Fault">>

(***************************************************************************)
(* The catalogs and the external date resolver                             *)
(***************************************************************************)
\* LocationParser.convert does not need the catalogs to be disjoint: the
\* country is also among the regions, and trento among the regions and the
\* provinces, so that the order of its tests shows.
country == <<"italia">>

regions == {<<"lombardia">>, <<"lazio">>, <<"trento">>, <<"italia">>}

provinces == {<<"roma">>, <<"milano">>, <<"trento">>}

stats == {<<"totale_positivi">>, <<"dimessi_guariti">>}

\* location.Location.resolve_alias(string, constants.location_aliases)
resolve_alias(string) ==
    IF string = <<"roma capitale">> THEN <<"roma">> ELSE string

\* str.replace(' ', '_') of a field
ReplaceSpaces(string) ==
    IF string = <<"totale positivi">> THEN <<"totale_positivi">>
    ELSE IF string = <<"dimessi guariti">> THEN <<"dimessi_guariti">>
    ELSE string

\* dateparser.parse(string, languages=['it', 'en']): a date, None when the
\* string is no date, or an exception of the library.
dateparser_parse(string) ==
    IF string \in {<<"oggi">>, <<"ieri">>, <<"24/02/2020">>, <<"1 giugno">>}
    THEN Date(string[1])
    ELSE IF string = <<"99999999999999999999">> THEN Fault
    ELSE None

(***************************************************************************)
(* Parser kinds                                                            *)
(***************************************************************************)
LeafKinds == {"DateParser", "LocationParser", "StatParser"}

\* The composed parsers of the module and FieldsParser, a ComposedParser made
\* with the sub-parsers [LocationParser, DateParser] and a split that
\* returns the fields of the first line of its string, however many there
\* are: the subclass whose split may break the contract of
\* ComposedParser.split.
ComposedKinds ==
    {"IntervalParser", "ReportRequestParser", "TrendRequestParser", "FieldsParser"}

Kinds == LeafKinds \cup ComposedKinds

\* ComposedParser.subparsers, as given to ComposedParser.__init__
subparsers(kind) ==
    CASE kind = "IntervalParser" -> <<"DateParser", "DateParser">>
      [] kind = "ReportRequestParser" -> <<"LocationParser", "DateParser">>
      [] kind = "TrendRequestParser" -> <<"StatParser", "LocationParser", "IntervalParser">>
      [] kind = "FieldsParser" -> <<"LocationParser", "DateParser">>
      [] OTHER -> <<>>

\* Parser.__init__
NewParser(kind) ==
    [kind |-> kind, _result |-> None, status |-> FALSE, error |-> None]

(***************************************************************************)
(* Outcomes of a call: a returned value or a raised exception, with the    *)
(* trace of the sub-parser calls and reductions made on the way.           *)
(* An event is <<"parse", kind, string>> or <<"reduce", kind>>.            *)
(***************************************************************************)
Return(value, trace) ==
    [exc |-> "none", value |-> value, args |-> <<>>, trace |-> trace]

Raise(exc, args, trace) ==
    [exc |-> exc, value |-> None, args |-> args, trace |-> trace]

(***************************************************************************)
(* Leaf parsers                                                            *)
(***************************************************************************)
\* DateParser.convert
DateParser_convert(string) ==
    LET result == dateparser_parse(string)
    IN  IF result = Fault THEN Raise("Exception", <<"dateparser">>, <<>>)
        ELSE IF result = None THEN Raise("ConversionError", <<string>>, <<>>)
        ELSE Return(result, <<>>)

\* LocationParser.convert with its tests in the opposite order.
LocationParser_convert_province_first(string) ==
    LET resolved == resolve_alias(string)
    IN  IF resolved \in provinces THEN Return(Location(resolved, "provincia"), <<>>)
        ELSE IF resolved \in regions THEN Return(Location(resolved, "regione"), <<>>)
        ELSE IF resolved = country THEN Return(Location(resolved, "stato"), <<>>)
        ELSE Raise("ConversionError", <<resolved>>, <<>>)

\* LocationParser.convert
LocationParser_convert(string) ==
    LET resolved == resolve_alias(string)
    IN  IF resolved = country THEN Return(Location(resolved, "stato"), <<>>)
        ELSE IF resolved \in regions THEN Return(Location(resolved, "regione"), <<>>)
        ELSE IF resolved \in provinces THEN Return(Location(resolved, "provincia"), <<>>)
        ELSE Raise("ConversionError", <<resolved>>, <<>>)

\* StatParser.convert
StatParser_convert(string) ==
    LET result == ReplaceSpaces(string)
    IN  IF result \notin stats THEN Raise("ConversionError", <<string>>, <<>>)
        ELSE Return(<<"stat", ReplaceSpaces(string)>>, <<>>)

(***************************************************************************)
(* The request patterns (constants.report_request, constants.trend_request,*)
(* constants.interval, constants.date) and re.split on them                *)
(***************************************************************************)
\* The text between and around the matches, which every split discards.
Rest == <<"_">>

\* The groups of the match of `pattern` in `line`, or <<>> when the line has
\* no match.  report_request: a location and an optional date.
\* trend_request: a statistic, an optional location and an optional
\* interval, the interval being the field of two dates.
Groups(pattern, line) ==
    LET n == Len(line)
        single(i) == Len(line[i]) = 1
        double(i) == Len(line[i]) = 2
    IN  CASE pattern = "report_request" ->
               IF n = 1 /\ single(1) THEN <<line[1], NoGroup>>
               ELSE IF n = 2 /\ single(1) /\ single(2) THEN <<line[1], line[2]>>
               ELSE <<>>
          [] pattern = "trend_request" ->
               IF n = 1 /\ single(1) THEN <<line[1], NoGroup, NoGroup>>
               ELSE IF n = 2 /\ single(1) /\ single(2) THEN <<line[1], line[2], NoGroup>>
               ELSE IF n = 2 /\ single(1) /\ double(2) THEN <<line[1], NoGroup, line[2]>>
               ELSE IF n = 3 /\ single(1) /\ single(2) /\ double(3)
                    THEN <<line[1], line[2], line[3]>>
               ELSE <<>>
          [] OTHER -> <<>>

RECURSIVE re_split(_, _)
\* re.split(pattern, text): the rest before the first match, then for every
\* match its groups and the rest after it.
re_split(pattern, text) ==
    IF text = <<>> THEN <<Rest>>
    ELSE LET g == Groups(pattern, Head(text))
         IN  IF g = <<>> THEN re_split(pattern, Tail(text))
             ELSE <<Rest>> \o g \o re_split(pattern, Tail(text))

\* re.search(pattern, text) is not None
re_search(pattern, text) ==
    \E i \in 1..Len(text) : Groups(pattern, text[i]) # <<>>

\* re.split(f"({constants.interval})", string) on a field
re_split_interval(string) ==
    IF Len(string) = 2 THEN <<Rest, string, Rest>> ELSE <<string>>

\* re.split(fr"({constants.date})\s?-\s?({constants.date})", interval)
re_split_dates(interval) ==
    IF Len(interval) = 2 THEN <<Rest, <<interval[1]>>, <<interval[2]>>, Rest>>
    ELSE <<interval>>

(***************************************************************************)
(* split of the three composed parsers.  An unpacking of a list of the     *)
(* wrong length raises ValueError.                                         *)
(***************************************************************************)
\* IntervalParser.split
IntervalParser_split(string) ==
    LET parts == re_split_interval(string)
    IN  IF Len(parts) # 3 THEN Raise("ValueError", <<"unpack">>, <<>>)
        ELSE LET dates == re_split_dates(parts[2])
             IN  IF Len(dates) # 4 THEN Raise("ValueError", <<"unpack">>, <<>>)
                 ELSE Return(<<dates[2], dates[3]>>, <<>>)

\* ReportRequestParser.split without its default for the date.
ReportRequestParser_split_no_default(string) ==
    LET parts == re_split("report_request", string)
    IN  IF Len(parts) # 4 THEN Raise("ValueError", <<"unpack">>, <<>>)
        ELSE Return(<<parts[2], parts[3]>>, <<>>)

\* ReportRequestParser.split
ReportRequestParser_split(string) ==
    LET parts == re_split("report_request", string)
    IN  IF Len(parts) # 4 THEN Raise("ValueError", <<"unpack">>, <<>>)
        ELSE LET location == parts[2]
                 date == IF parts[3] = NoGroup THEN <<"oggi">> ELSE parts[3]
             IN  Return(<<location, date>>, <<>>)

\* TrendRequestParser.split
TrendRequestParser_split(string) ==
    LET parts == re_split("trend_request", string)
    IN  IF Len(parts) # 5 THEN Raise("ValueError", <<"unpack">>, <<>>)
        ELSE LET stat == parts[2]
                 location == IF parts[3] = NoGroup THEN <<"italia">> ELSE parts[3]
                 interval == IF parts[4] = NoGroup THEN <<"24/02/2020", "oggi">>
                             ELSE parts[4]
             IN  Return(<<stat, location, interval>>, <<>>)

split(kind, string) ==
    CASE kind = "IntervalParser" -> IntervalParser_split(string)
      [] kind = "ReportRequestParser" -> ReportRequestParser_split(string)
      [] kind = "TrendRequestParser" -> TrendRequestParser_split(string)
      [] kind = "FieldsParser" ->
           Return(IF string = <<>> THEN <<>> ELSE string[1], <<>>)

\* ComposedParser.reduce, and its override in IntervalParser
reduce(kind, partial_results) ==
    IF kind = "IntervalParser"
    THEN DateInterval(partial_results[1], partial_results[2])
    ELSE List(partial_results)

(***************************************************************************)
(* Parser                                                                  *)
(***************************************************************************)
\* Parser.result without its test of the status.
result_unchecked(self) == Return(self._result, <<>>)

\* Parser.result, the property
result(self) ==
    IF self.status = TRUE THEN Return(self._result, <<>>)
    ELSE Raise("ParserError", <<"Cannot get results">>, <<>>)

\* make_error_message with a composed parser that words its own message
\* around that of its sub-parser.
make_error_message_rewrapped(kind, error, string) ==
    CASE kind = "DateParser" -> <<"Non riconosco come una data valida", error[1]>>
      [] kind = "LocationParser" -> <<"Non riconosco come un luogo valido", string>>
      [] kind = "StatParser" -> <<"Non riconosco come una statistica valida", string>>
      [] OTHER -> <<"Richiesta non valida", error[3]>>

\* make_error_message of DateParser, LocationParser, StatParser and
\* ComposedParser; `error` is the args of the ConversionError.
make_error_message(kind, error, string) ==
    CASE kind = "DateParser" -> <<"Non riconosco come una data valida", error[1]>>
      [] kind = "LocationParser" -> <<"Non riconosco come un luogo valido", string>>
      [] kind = "StatParser" -> <<"Non riconosco come una statistica valida", string>>
      [] OTHER -> error[3]

\* Parser.parse without its "except Parser.ConversionError" clause: the
\* ConversionError is handled as any other exception.
parse_outcome_uncaught(self, c, string) ==
    IF c.exc # "none"
    THEN [self |-> [self EXCEPT !.status = FALSE, !.error = <<"args", c.args>>],
          ret |-> FALSE, raised |-> TRUE, trace |-> c.trace]
    ELSE [self |-> [self EXCEPT !._result = c.value, !.status = TRUE],
          ret |-> TRUE, raised |-> FALSE, trace |-> c.trace]

\* Parser.parse without the raise of its "except Exception" clause: every
\* exception ends in a returned status False.
parse_outcome_swallowed(self, c, string) ==
    IF c.exc = "ConversionError"
    THEN [self |-> [self EXCEPT !.status = FALSE,
                                !.error = make_error_message(self.kind, c.args, string)],
          ret |-> FALSE, raised |-> FALSE, trace |-> c.trace]
    ELSE IF c.exc # "none"
    THEN [self |-> [self EXCEPT !.status = FALSE, !.error = <<"args", c.args>>],
          ret |-> FALSE, raised |-> FALSE, trace |-> c.trace]
    ELSE [self |-> [self EXCEPT !._result = c.value, !.status = TRUE],
          ret |-> TRUE, raised |-> FALSE, trace |-> c.trace]

\* The try statement of Parser.parse, given what convert did: the instance
\* after the call, what the call returned and whether it raised ParserError.
parse_outcome(self, c, string) ==
    IF c.exc = "ConversionError"
    THEN [self |-> [self EXCEPT !.status = FALSE,
                                !.error = make_error_message(self.kind, c.args, string)],
          ret |-> FALSE, raised |-> FALSE, trace |-> c.trace]
    ELSE IF c.exc # "none"
    THEN [self |-> [self EXCEPT !.status = FALSE, !.error = <<"args", c.args>>],
          ret |-> FALSE, raised |-> TRUE, trace |-> c.trace]
    ELSE [self |-> [self EXCEPT !._result = c.value, !.status = TRUE],
          ret |-> TRUE, raised |-> FALSE, trace |-> c.trace]

\* The loop going on to the next field after a sub-parser failed.
subparser_step_keeps_going(p) ==
    IF p.raised THEN "raise" ELSE "next"

\* What the loop of ComposedParser.convert does with the sub-parser of a
\* field once it has parsed it: "raise" (the sub-parser raised ParserError),
\* "fail" (its status is False) or "next".
subparser_step(p) ==
    IF p.raised THEN "raise"
    ELSE IF p.ret = FALSE THEN "fail"
    ELSE "next"

RECURSIVE parse(_, _)
RECURSIVE parse_fields(_, _, _, _, _)

\* The loop of ComposedParser.convert from field i on (i counts from 1), and
\* the reduction after the last field.
parse_fields(kind, fields, i, results, trace) ==
    IF i > Len(fields)
    THEN Return(reduce(kind, results), Append(trace, <<"reduce", kind>>))
    ELSE LET sub == subparsers(kind)[i]
             Parsed(p) ==
                 LET t == (trace \o <<<<"parse", sub, fields[i]>>>>) \o p.trace
                     todo == subparser_step(p)
                 IN  IF todo = "raise"
                     THEN Raise("ParserError", <<"An error occurred">>, t)
                     ELSE IF todo = "fail"
                     THEN Raise("ConversionError", <<i - 1, fields[i], p.self.error>>, t)
                     ELSE parse_fields(kind, fields, i + 1,
                                       Append(results, result(p.self).value), t)
         IN  Parsed(parse(NewParser(sub), fields[i]))

\* ComposedParser.convert without its test of the number of fields: zip
\* pairs the fields and the sub-parsers up to the shorter of the two lists.
ComposedParser_convert_unchecked(kind, string) ==
    LET Split(fields) ==
            IF fields.exc # "none" THEN fields
            ELSE IF Len(fields.value) > Len(subparsers(kind))
            THEN parse_fields(kind, SubSeq(fields.value, 1, Len(subparsers(kind))),
                              1, <<>>, <<>>)
            ELSE parse_fields(kind, fields.value, 1, <<>>, <<>>)
    IN  Split(split(kind, string))

\* ComposedParser.convert
ComposedParser_convert(kind, string) ==
    LET Split(fields) ==
            IF fields.exc # "none" THEN fields
            ELSE IF Len(fields.value) # Len(subparsers(kind))
            THEN Raise("ParserError", <<"Cannot parse fields">>, <<>>)
            ELSE parse_fields(kind, fields.value, 1, <<>>, <<>>)
    IN  Split(split(kind, string))

convert(kind, string) ==
    CASE kind = "DateParser" -> DateParser_convert(string)
      [] kind = "LocationParser" -> LocationParser_convert(string)
      [] kind = "StatParser" -> StatParser_convert(string)
      [] OTHER -> ComposedParser_convert(kind, string)

\* Parser.parse returning at once on an instance whose status is True from
\* an earlier call.
parse_keeps_first(self, string) ==
    IF self.status = TRUE
    THEN [self |-> self, ret |-> TRUE, raised |-> FALSE, trace |-> <<>>]
    ELSE parse_outcome([self EXCEPT !.status = FALSE], convert(self.kind, string), string)

\* Parser.parse
parse(self, string) ==
    parse_outcome([self EXCEPT !.status = FALSE], convert(self.kind, string), string)

(***************************************************************************)
(* The strings the parsers are tried on                                    *)
(***************************************************************************)
LocationFields ==
    {<<"italia">>, <<"lombardia">>, <<"trento">>, <<"roma">>, <<"roma capitale">>,
     <<"marte">>}

DateFields == {<<"oggi">>, <<"ieri">>, <<"boh">>, <<"99999999999999999999">>}

StatFields == {<<"totale positivi">>, <<"dimessi_guariti">>, <<"xyz">>}

IntervalFields ==
    {<<"ieri", "oggi">>, <<"boh", "oggi">>, <<"1 giugno", "boh">>,
     <<"99999999999999999999", "oggi">>, <<"ieri", "99999999999999999999">>}

\* What a leaf parser or the interval parser may be given.
Fields == LocationFields \cup DateFields \cup StatFields \cup IntervalFields

ReportLines ==
    {<<l>> : l \in LocationFields} \cup (LocationFields \X DateFields)

TrendLines ==
    {<<s>> : s \in StatFields}
    \cup (StatFields \X {<<"roma">>, <<"marte">>})
    \cup (StatFields \X IntervalFields)
    \cup ({<<"totale positivi">>, <<"xyz">>} \X {<<"lombardia">>, <<"marte">>} \X IntervalFields)

\* The most lines a text has.
MaxLines == 2

\* The texts of no line, one line and more, each line a request.
ManyLines ==
    UNION {[1..n -> {<<<<"roma">>, <<"ieri">>>>, <<<<"totale positivi">>>>}] : n \in 0..MaxLines}

\* What a request parser may be given: one request, or the lines of several.
Texts ==
    {<<line>> : line \in ReportLines \cup TrendLines} \cup ManyLines

Inputs(kind) ==
    IF kind \in {"ReportRequestParser", "TrendRequestParser", "FieldsParser"}
    THEN Texts ELSE Fields

(***************************************************************************)
(* ParserSpec: one Parser instance, parsed with and read any number of     *)
(* times.                                                                  *)
(***************************************************************************)
NoCall ==
    [called |-> FALSE, string |-> <<>>, conv |-> Return(None, <<>>),
     ret |-> FALSE, raised |-> FALSE]

NoRead == [read |-> FALSE, raised |-> FALSE, value |-> None]

\* No conversation takes place in ParserSpec.
Idle == [handled |-> FALSE]

InitParser ==
    /\ parser \in {NewParser(kind) : kind \in Kinds}
    /\ last = NoCall
    /\ got = NoRead
    /\ conv = <<>>
    /\ step = Idle

\* parser.parse(string)
Parse(string) ==
    \E p \in {parse(parser, string)} :
        /\ parser' = p.self
        /\ last' = [called |-> TRUE, string |-> string,
                    conv |-> convert(parser.kind, string),
                    ret |-> p.ret, raised |-> p.raised]
        /\ got' = NoRead
        /\ UNCHANGED <<conv, step>>

\* parser.result
ReadResult ==
    LET r == result(parser)
    IN  /\ got' = [read |-> TRUE, raised |-> r.exc # "none", value |-> r.value]
        /\ UNCHANGED <<parser, last, conv, step>>

NextParser ==
    \/ \E string \in Inputs(parser.kind) : Parse(string)
    \/ ReadResult

ParserSpec == InitParser /\ [][NextParser]_vars

(***************************************************************************)
(* The conversation of coronabot/handlers.py                               *)
(*                                                                         *)
(* An update is [cmd, text]: cmd is the command of a command message ("",  *)
(* when the message is none), text the text of the message as the request  *)
(* patterns see it (the empty text for a message that is a command or has  *)
(* no text, such as a photo).                                              *)
(* conv[chat] is <<>> while the chat has no conversation, and <<s>> while  *)
(* its conversation is in state s.                                         *)
(***************************************************************************)
HOME == 0

TRENDS == 1

REPORTS == 2

ERROR == 3

\* ConversationHandler.END
END == -1

Chats == {"chat1", "chat2"}

Int_(n) == <<"int", n>>

\* str.lower() of an atom, a field, a line, a text
LowerAtom(atom) ==
    CASE atom = "Roma" -> "roma"
      [] atom = "Marte" -> "marte"
      [] atom = "Totale positivi" -> "totale positivi"
      [] atom = "Aiuto" -> "aiuto"
      [] atom = "Info" -> "info"
      [] atom = "Report" -> "report"
      [] atom = "Andamento" -> "andamento"
      [] OTHER -> atom

lower(text) ==
    [l \in DOMAIN text |->
        [f \in DOMAIN text[l] |->
            [a \in DOMAIN text[l][f] |-> LowerAtom(text[l][f][a])]]]

Command(name) == [cmd |-> name, text |-> <<>>]

Text(text) == [cmd |-> "", text |-> text]

\* The text of one word
Word(atom) == <<<<<<atom>>>>>>

\* send_message, send_photo
send_message(message) == <<<<"send_message", message>>>>

send_photo(photo) == <<<<"send_photo", photo>>>>

\* cb_not_implemented
cb_not_implemented == Raise("NotImplementedError", <<"Handler not implemented">>, <<>>)

\* cb_unknown_request sending the chat back to the home state.
cb_unknown_request_goes_home ==
    Return(Int_(HOME), send_message(<<"Non riesco a capire la tua richiesta">>))

\* cb_unknown_request sending the chat to the state ERROR.
cb_unknown_request_to_error ==
    Return(Int_(ERROR), send_message(<<"Non riesco a capire la tua richiesta">>))

\* cb_unknown_request
cb_unknown_request ==
    Return(None, send_message(<<"Non riesco a capire la tua richiesta">>))

\* cb_prompt_start
cb_prompt_start ==
    Return(None, send_message(<<"La conversazione non e' attiva">>))

\* cb_start
cb_start == Return(Int_(HOME), send_message(<<"Benvenuto!">>))

\* cb_stop
cb_stop ==
    LET r == cb_not_implemented
    IN  IF r.exc # "none" THEN r ELSE Return(Int_(END), r.trace)

\* cb_home
cb_home == Return(Int_(HOME), send_message(<<"Cosa posso fare per te?">>))

\* cb_home_help
cb_home_help ==
    Return(Int_(HOME), send_message(<<"Invia un messaggio contenente una parola chiave">>))

\* cb_info
cb_info == Return(Int_(HOME), send_message(<<"Questo e' un bot open source">>))

\* cb_report returning the state of the callback it was copied from.
cb_report_stays ==
    Return(Int_(HOME), send_message(<<"Quale report vuoi consultare?">>))

\* cb_report
cb_report == Return(Int_(REPORTS), send_message(<<"Quale report vuoi consultare?">>))

\* cb_reports_help returning the state of cb_trends_help.
cb_reports_help_to_trends ==
    Return(Int_(TRENDS), send_message(<<"Rispondi con il luogo e la data">>))

\* cb_reports_help
cb_reports_help ==
    Return(Int_(REPORTS), send_message(<<"Rispondi con il luogo e la data">>))

\* cb_trends
cb_trends == Return(Int_(TRENDS), send_message(<<"Qui puoi visualizzare i grafici">>))

\* cb_trends_help
cb_trends_help ==
    Return(Int_(TRENDS), send_message(<<"Invia la statistica, il luogo e il periodo">>))

\* What the collaborators core.get_report and core.plot_trend may do on a
\* call: "ok" (return), "KeyError" (plot_trend: the statistic is not
\* available for the location) or "Exception" (any other failure).
Env == {"ok", "KeyError", "Exception"}

\* cb_report_request
cb_report_request(update, env) ==
    LET request == lower(update.text)
        Parsed(p) ==
            LET t == <<<<"parse", "ReportRequestParser", request>>>> \o p.trace
            IN  IF p.raised THEN Raise("ParserError", <<"An error occurred">>, t)
                ELSE IF p.self.status = TRUE
                THEN LET r == result(p.self).value[2]
                         call == <<<<"get_report", r[1], r[2]>>>>
                     IN  IF env # "ok" THEN Raise(env, <<"core.get_report">>, t \o call)
                         ELSE Return(Int_(REPORTS),
                                     (t \o call) \o send_message(<<"report", r[1], r[2]>>))
                ELSE Return(Int_(REPORTS), t \o send_message(p.self.error))
    IN  Parsed(parse(NewParser("ReportRequestParser"), request))

\* cb_trends_request without its except clause for KeyError.
cb_trends_request_uncaught(update, env) ==
    LET request == lower(update.text)
        Parsed(p) ==
            LET t == <<<<"parse", "TrendRequestParser", request>>>> \o p.trace
            IN  IF p.raised THEN Raise("ParserError", <<"An error occurred">>, t)
                ELSE IF p.self.status = TRUE
                THEN LET r == result(p.self).value[2]
                         call == <<<<"plot_trend", r[1], r[2], r[3]>>>>
                     IN  IF env # "ok"
                         THEN Raise(env, <<"core.plot_trend">>, t \o call)
                         ELSE Return(Int_(TRENDS),
                                     (t \o call) \o send_photo(<<"graph", r[1], r[2], r[3]>>))
                ELSE Return(Int_(TRENDS), t \o send_message(p.self.error))
    IN  Parsed(parse(NewParser("TrendRequestParser"), request))

\* cb_trends_request
cb_trends_request(update, env) ==
    LET request == lower(update.text)
        Parsed(p) ==
            LET t == <<<<"parse", "TrendRequestParser", request>>>> \o p.trace
            IN  IF p.raised THEN Raise("ParserError", <<"An error occurred">>, t)
                ELSE IF p.self.status = TRUE
                THEN LET r == result(p.self).value[2]
                         call == <<<<"plot_trend", r[1], r[2], r[3]>>>>
                     IN  IF env = "KeyError"
                         THEN Return(None,
                                     (t \o call)
                                        \o send_message(<<"Non ci sono dati; disponibili",
                                                          r[1], r[2]>>))
                         ELSE IF env # "ok"
                         THEN Raise(env, <<"core.plot_trend">>, t \o call)
                         ELSE Return(Int_(TRENDS),
                                     (t \o call) \o send_photo(<<"graph", r[1], r[2], r[3]>>))
                ELSE Return(Int_(TRENDS), t \o send_message(p.self.error))
    IN  Parsed(parse(NewParser("TrendRequestParser"), request))

\* The callback a handler names, run on an update.
Callback(name, update, env) ==
    CASE name = "cb_start" -> cb_start
      [] name = "cb_stop" -> cb_stop
      [] name = "cb_home" -> cb_home
      [] name = "cb_prompt_start" -> cb_prompt_start
      [] name = "cb_unknown_request" -> cb_unknown_request
      [] name = "cb_home_help" -> cb_home_help
      [] name = "cb_info" -> cb_info
      [] name = "cb_report" -> cb_report
      [] name = "cb_reports_help" -> cb_reports_help
      [] name = "cb_report_request" -> cb_report_request(update, env)
      [] name = "cb_trends" -> cb_trends
      [] name = "cb_trends_help" -> cb_trends_help
      [] name = "cb_trends_request" -> cb_trends_request(update, env)

\* cb_error_handler without its clause for NotImplementedError.
cb_error_handler_generic(error) ==
    send_message(<<"Si e' verificato un errore">>)

\* cb_error_handler that sends nothing.
cb_error_handler_sends_nothing(error) == <<>>

\* cb_error_handler, on the exception a callback raised
cb_error_handler(error) ==
    IF error = "NotImplementedError"
    THEN send_message(<<"Questa funzione non e' ancora disponibile">>)
    ELSE send_message(<<"Si e' verificato un errore">>)

(***************************************************************************)
(* The handlers.  A handler is <<filter, argument, callback>>: the filters *)
(* are CommandHandler(argument), Filters.text(argument),                   *)
(* Filters.regex(argument) and Filters.all.                                *)
(***************************************************************************)
start_handler == <<"command", "start", "cb_start">>

stop_handler == <<"command", "stop", "cb_stop">>

\* The entry points without the handler of any other message.
entry_points_start_only == <<start_handler>>

entry_points ==
    <<start_handler,
      <<"all", "", "cb_prompt_start">>>>

\* The states with the request handlers of Reports and Trends exchanged.
states_requests_exchanged(state) ==
    CASE state = HOME ->
           <<<<"command", "help", "cb_home_help">>,
             <<"text", "Aiuto", "cb_home_help">>,
             <<"text", "Info", "cb_info">>,
             <<"text", "Report", "cb_report">>,
             <<"text", "Andamento", "cb_trends">>>>
      [] state = REPORTS ->
           <<<<"command", "help", "cb_reports_help">>,
             <<"regex", "trend_request", "cb_trends_request">>>>
      [] state = TRENDS ->
           <<<<"command", "help", "cb_trends_help">>,
             <<"regex", "report_request", "cb_report_request">>>>
      [] OTHER -> <<>>

states(state) ==
    CASE state = HOME ->
           <<<<"command", "help", "cb_home_help">>,
             <<"text", "Aiuto", "cb_home_help">>,
             <<"text", "Info", "cb_info">>,
             <<"text", "Report", "cb_report">>,
             <<"text", "Andamento", "cb_trends">>>>
      [] state = REPORTS ->
           <<<<"command", "help", "cb_reports_help">>,
             <<"regex", "report_request", "cb_report_request">>>>
      [] state = TRENDS ->
           <<<<"command", "help", "cb_trends_help">>,
             <<"regex", "trend_request", "cb_trends_request">>>>
      [] OTHER -> <<>>

\* The fallbacks with the handler of any message put first.
fallbacks_all_first ==
    <<<<"all", "", "cb_unknown_request">>,
      start_handler,
      stop_handler,
      <<"command", "home", "cb_home">>>>

fallbacks ==
    <<start_handler,
      stop_handler,
      <<"command", "home", "cb_home">>,
      <<"all", "", "cb_unknown_request">>>>

\* Handler.check_update
check_update(handler, update) ==
    CASE handler[1] = "command" -> update.cmd = handler[2]
      [] handler[1] = "text" -> update.cmd = "" /\ update.text = Word(handler[2])
      [] handler[1] = "regex" -> update.cmd = "" /\ re_search(handler[2], update.text)
      [] OTHER -> TRUE

\* The callback of the first handler of the list that takes the update, or
\* "" when none does.
FirstHandler(handlers, update) ==
    LET takes == {i \in 1..Len(handlers) : check_update(handlers[i], update)}
    IN  IF takes = {} THEN ""
        ELSE handlers[CHOOSE i \in takes : \A j \in takes : i <= j][3]

\* ConversationHandler.check_update: the entry points for a chat with no
\* conversation; otherwise the handlers of the state and, when none of them
\* takes the update, the fallbacks.
SelectCallback(state, update) ==
    IF state = <<>> THEN FirstHandler(entry_points, update)
    ELSE LET own == FirstHandler(states(state[1]), update)
         IN  IF own # "" THEN own ELSE FirstHandler(fallbacks, update)

\* update_state taking a callback that returns None to end the conversation.
update_state_none_ends(state, new_state) ==
    IF new_state = Int_(END) \/ new_state = None THEN <<>>
    ELSE <<new_state[2]>>

\* ConversationHandler.update_state
update_state(state, new_state) ==
    IF new_state = Int_(END) THEN <<>>
    ELSE IF new_state # None THEN <<new_state[2]>>
    ELSE state

\* The error handler the dispatcher runs on the exception of a callback.
dispatch_error(error) == cb_error_handler(error)

\* Dispatcher.process_update with ConversationHandler.handle_update: the
\* callback selected for the update runs; when it returns, its value updates
\* the state of the conversation; when it raises, the state is left alone
\* and the error handler runs.
process_update(state, update, env) ==
    LET Called(name, r) ==
            IF r.exc = "none"
            THEN [callback |-> name, exc |-> "none",
                  state |-> update_state(state, r.value), trace |-> r.trace]
            ELSE [callback |-> name, exc |-> r.exc,
                  state |-> state, trace |-> r.trace \o dispatch_error(r.exc)]
        Selected(name) ==
            IF name = ""
            THEN [callback |-> name, exc |-> "none", state |-> state, trace |-> <<>>]
            ELSE Called(name, Callback(name, update, env))
    IN  Selected(SelectCallback(state, update))

(***************************************************************************)
(* The updates the chats send                                              *)
(***************************************************************************)
Commands == {"start", "stop", "home", "help", "settings"}

Keywords == {"Aiuto", "Info", "Report", "Andamento"}

RequestTexts ==
    {<<<<<<"roma">>>>>>,
     <<<<<<"Roma">>, <<"ieri">>>>>>,
     <<<<<<"Marte">>, <<"boh">>>>>>,
     <<<<<<"lombardia">>, <<"boh">>>>>>,
     <<<<<<"italia">>, <<"99999999999999999999">>>>>>,
     <<<<<<"totale positivi">>>>>>,
     <<<<<<"Totale positivi">>, <<"lombardia">>, <<"ieri", "oggi">>>>>>,
     <<<<<<"totale positivi">>, <<"marte">>, <<"ieri", "oggi">>>>>>,
     <<<<<<"xyz">>, <<"marte">>, <<"boh", "oggi">>>>>>,
     <<<<<<"dimessi_guariti">>, <<"roma capitale">>, <<"1 giugno", "boh">>>>>>,
     <<<<<<"totale positivi">>, <<"ieri", "99999999999999999999">>>>>>,
     <<<<<<"roma">>, <<"ieri">>, <<"oggi">>>>>>}

Updates ==
    {Command(c) : c \in Commands}
    \cup {Text(Word(k)) : k \in Keywords}
    \cup {Text(t) : t \in RequestTexts \cup ManyLines}

(***************************************************************************)
(* Spec: the chats send updates, one at a time.                            *)
(***************************************************************************)
Init ==
    /\ conv = [chat \in Chats |-> <<>>]
    /\ step = Idle
    /\ parser = NewParser("ReportRequestParser")
    /\ last = NoCall
    /\ got = NoRead

\* The dispatcher with one conversation for all the chats, not one for each.
Receive_one_conversation(chat, update, env) ==
    \E d \in {process_update(conv[chat], update, env)} :
        /\ conv' = [c \in Chats |-> d.state]
        /\ step' = [handled |-> TRUE, chat |-> chat, update |-> update,
                    env |-> env, before |-> conv[chat],
                    callback |-> d.callback, exc |-> d.exc, trace |-> d.trace]
        /\ UNCHANGED <<parser, last, got>>

\* The dispatcher handles an update of a chat.
Receive(chat, update, env) ==
    \E d \in {process_update(conv[chat], update, env)} :
        /\ conv' = [conv EXCEPT ![chat] = d.state]
        /\ step' = [handled |-> TRUE, chat |-> chat, update |-> update,
                    env |-> env, before |-> conv[chat],
                    callback |-> d.callback, exc |-> d.exc, trace |-> d.trace]
        /\ UNCHANGED <<parser, last, got>>

Next == \E chat \in Chats, update \in Updates, env \in Env : Receive(chat, update, env)

Spec == Init /\ [][Next]_vars

(***************************************************************************)
(* Properties of the parsers, checked under ParserSpec                     *)
(***************************************************************************)
\* The sub-parser of field i of a composed parser, run on its own.
Alone(kind, fields, i) == parse(NewParser(subparsers(kind)[i]), fields[i])

\* Field i is the first whose sub-parser does not succeed.
FirstToStop(kind, fields, i) ==
    /\ i \in 1..Len(fields)
    /\ ~Alone(kind, fields, i).ret
    /\ \A j \in 1..(i - 1) : Alone(kind, fields, j).ret

RECURSIVE CallsUpTo(_, _, _)
\* The events of running the sub-parsers of fields 1..i in order, each once.
CallsUpTo(kind, fields, i) ==
    IF i = 0 THEN <<>>
    ELSE (CallsUpTo(kind, fields, i - 1)
            \o <<<<"parse", subparsers(kind)[i], fields[i]>>>>)
            \o Alone(kind, fields, i).trace

\* The call last made on a composed parser, whose split returned its
\* fields, one for each sub-parser.
ComposedCall ==
    /\ last.called
    /\ parser.kind \in ComposedKinds
    /\ split(parser.kind, last.string).exc = "none"
    /\ Len(split(parser.kind, last.string).value) = Len(subparsers(parser.kind))

LastFields == split(parser.kind, last.string).value

\* C2: Parser.parse never lets a ConversionError escape.  When convert raises
\* ConversionError, parse returns normally with status False and with error
\* set to make_error_message(error, input) of that parser; when convert
\* returns a value, parse returns with status True and that value as result.
C2_ConversionErrorBecomesFailure ==
    last.called =>
        /\ last.conv.exc = "ConversionError" =>
              /\ ~last.raised
              /\ last.ret = FALSE
              /\ parser.status = FALSE
              /\ parser.error
                    = make_error_message(parser.kind, last.conv.args, last.string)
        /\ last.conv.exc = "none" =>
              /\ ~last.raised
              /\ last.ret = TRUE
              /\ parser.status = TRUE
              /\ parser._result = last.conv.value

C2_Witness ==
    /\ last.called
    /\ parser.kind = "LocationParser"
    /\ last.string = <<"marte">>
    /\ last.conv.exc = "ConversionError"
    /\ parser.error = <<"Non riconosco come un luogo valido", <<"marte">>>>

\* C3: composed-parser fail-fast.  The sub-parsers run on their fields in
\* declaration order; when the sub-parser of field i is the first to fail, no
\* sub-parser of a later field is invoked, reduce is not called, and the
\* ConversionError raised carries exactly the zero-based index of field i,
\* the text of field i and that sub-parser's error message.
C3_FailFast ==
    ComposedCall =>
        \A i \in 1..Len(LastFields) :
            (FirstToStop(parser.kind, LastFields, i)
                /\ ~Alone(parser.kind, LastFields, i).raised) =>
                    /\ last.conv.exc = "ConversionError"
                    /\ last.conv.args
                          = <<i - 1, LastFields[i], Alone(parser.kind, LastFields, i).self.error>>
                    /\ last.conv.trace = CallsUpTo(parser.kind, LastFields, i)
                    /\ \A n \in 1..Len(last.conv.trace) :
                          last.conv.trace[n][1] # "reduce"
                             \/ last.conv.trace[n][2] # parser.kind

\* [A, B] = [LocationParser, DateParser]: both fields are invalid, A fails on
\* field 0 and B is not invoked.
C3_Witness ==
    /\ last.called
    /\ parser.kind = "ReportRequestParser"
    /\ last.string = <<<<<<"marte">>, <<"boh">>>>>>
    /\ last.conv.exc = "ConversionError"
    /\ last.conv.args[1] = 0
    /\ last.conv.trace = <<<<"parse", "LocationParser", <<"marte">>>>>>

RECURSIVE LeafMessage(_, _)
\* The message of the leaf parser at which a failed conversion started: the
\* leaf's own make_error_message on the field it was given.
LeafMessage(kind, string) ==
    LET c == convert(kind, string)
    IN  IF kind \in LeafKinds THEN make_error_message(kind, c.args, string)
        ELSE LeafMessage(subparsers(kind)[c.args[1] + 1], c.args[2])

\* C4: error pass-through across nesting.  When a leaf parser fails inside
\* any depth of composed parsers, the error message of the outermost composed
\* parser equals the message of the failing leaf's own make_error_message.
C4_ErrorPassThrough ==
    (last.called /\ parser.kind \in ComposedKinds /\ last.conv.exc = "ConversionError") =>
        /\ ~last.raised
        /\ parser.error = LeafMessage(parser.kind, last.string)

\* A date leaf inside the interval parser inside the trend request parser.
C4_Witness ==
    /\ last.called
    /\ parser.kind = "TrendRequestParser"
    /\ last.string = <<<<<<"totale positivi">>, <<"lombardia">>, <<"1 giugno", "boh">>>>>>
    /\ parser.error = <<"Non riconosco come una data valida", <<"boh">>>>

\* C5: a failure of convert that is not a ConversionError, be it raised by
\* split, by a leaf or by a nested sub-parser, never becomes a Failure
\* outcome: parse raises ParserError, at every nesting level, and the status
\* of the parser is False afterwards.
C5_OtherFailuresAreFatal ==
    /\ (last.called /\ last.conv.exc \notin {"none", "ConversionError"}) =>
          /\ last.raised
          /\ parser.status = FALSE
    /\ ComposedCall =>
          \A i \in 1..Len(LastFields) :
              (FirstToStop(parser.kind, LastFields, i)
                  /\ Alone(parser.kind, LastFields, i).raised) =>
                      /\ last.conv.exc = "ParserError"
                      /\ last.raised
                      /\ parser.status = FALSE

\* The date resolver fails in a date leaf, two composed parsers deep.
C5_Witness ==
    /\ last.called
    /\ parser.kind = "TrendRequestParser"
    /\ last.string
          = <<<<<<"totale positivi">>, <<"lombardia">>, <<"ieri", "99999999999999999999">>>>>>
    /\ last.raised
    /\ parser.status = FALSE

\* C6: the result accessor returns a value only if the most recent parse on
\* the instance succeeded, and then the value of that parse; when no parse
\* has run, or the most recent one failed or raised, it raises.
C6_ResultOnlyAfterSuccess ==
    got.read =>
        IF last.called /\ last.conv.exc = "none"
        THEN ~got.raised /\ got.value = last.conv.value
        ELSE got.raised

\* A read after a failed parse on an instance that still holds the result of
\* an earlier successful parse.
C6_Witness ==
    /\ got.read
    /\ got.raised
    /\ last.called
    /\ last.conv.exc # "none"
    /\ parser._result # None

(***************************************************************************)
(* Properties of the conversation, checked under Spec                      *)
(***************************************************************************)
\* The state of the chat of the last update, after the update.
After == conv[step.chat]

\* The last update is a message with text that matches the pattern.
Matches(pattern) ==
    step.update.cmd = "" /\ re_search(pattern, step.update.text)

\* The request parser of the kind, run on its own on the last update.
Request(kind) == parse(NewParser(kind), lower(step.update.text))

\* C1: in state Reports a text that matches the report-request pattern leaves
\* the conversation in Reports, and in state Trends a text that matches the
\* trend-request pattern leaves it in Trends, whether the request parser
\* succeeds or fails; on failure the only output is the parser's error
\* message.
C1_RequestKeepsState ==
    step.handled =>
        /\ (step.before = <<REPORTS>> /\ Matches("report_request")) =>
              /\ After = <<REPORTS>>
              /\ step.callback = "cb_report_request"
              /\ (~Request("ReportRequestParser").raised
                    /\ ~Request("ReportRequestParser").ret) =>
                        step.trace
                          = (<<<<"parse", "ReportRequestParser", lower(step.update.text)>>>>
                               \o Request("ReportRequestParser").trace)
                               \o send_message(Request("ReportRequestParser").self.error)
        /\ (step.before = <<TRENDS>> /\ Matches("trend_request")) =>
              /\ After = <<TRENDS>>
              /\ step.callback = "cb_trends_request"
              /\ (~Request("TrendRequestParser").raised
                    /\ ~Request("TrendRequestParser").ret) =>
                        step.trace
                          = (<<<<"parse", "TrendRequestParser", lower(step.update.text)>>>>
                               \o Request("TrendRequestParser").trace)
                               \o send_message(Request("TrendRequestParser").self.error)

\* In Trends, a request with an unknown location is answered with the
\* location parser's message alone, and the conversation stays in Trends.
C1_Witness ==
    /\ step.handled
    /\ step.before = <<TRENDS>>
    /\ step.update = Text(<<<<<<"totale positivi">>, <<"marte">>, <<"ieri", "oggi">>>>>>)
    /\ step.trace[Len(step.trace)]
          = <<"send_message", <<"Non riconosco come un luogo valido", <<"marte">>>>>>
    /\ After = <<TRENDS>>

\* C7: from Home, the help keyword or the help command emits the help text
\* and stays in Home, the report keyword emits the report prompt and moves to
\* Reports, and the trend keyword emits the trend prompt and moves to Trends.
C7_HomeTransitions ==
    (step.handled /\ step.before = <<HOME>>) =>
        /\ step.update \in {Command("help"), Text(Word("Aiuto"))} =>
              /\ step.trace
                    = send_message(<<"Invia un messaggio contenente una parola chiave">>)
              /\ After = <<HOME>>
        /\ step.update = Text(Word("Report")) =>
              /\ step.trace = send_message(<<"Quale report vuoi consultare?">>)
              /\ After = <<REPORTS>>
        /\ step.update = Text(Word("Andamento")) =>
              /\ step.trace = send_message(<<"Qui puoi visualizzare i grafici">>)
              /\ After = <<TRENDS>>

C7_Witness ==
    /\ step.handled
    /\ step.before = <<HOME>>
    /\ step.update = Text(Word("Andamento"))
    /\ After = <<TRENDS>>

C9_UnknownRequest ==
    (/\ step.handled
     /\ step.before # <<>>
     /\ FirstHandler(states(step.before[1]), step.update) = ""
     /\ step.update.cmd \notin {"start", "stop", "home"}) =>
        /\ step.callback = "cb_unknown_request"
        /\ step.trace = send_message(<<"Non riesco a capire la tua richiesta">>)
        /\ After = step.before

\* A text of three fields, which is no report request, in Reports.
C9_Witness ==
    /\ step.handled
    /\ step.before = <<REPORTS>>
    /\ step.update = Text(<<<<<<"roma">>, <<"ieri">>, <<"oggi">>>>>>)
    /\ step.callback = "cb_unknown_request"
    /\ After = <<REPORTS>>

\* C10: the stop command, in any active state, is answered with the
\* feature-not-available text, not with the something-went-wrong text, and
\* the state of the conversation is the same after it as before.
C10_StopNotImplemented ==
    (step.handled /\ step.before # <<>> /\ step.update = Command("stop")) =>
        /\ step.trace = send_message(<<"Questa funzione non e' ancora disponibile">>)
        /\ After = step.before

C10_Witness ==
    /\ step.handled
    /\ step.before = <<REPORTS>>
    /\ step.update = Command("stop")
    /\ step.exc = "NotImplementedError"
    /\ After = <<REPORTS>>

\* The messages and photos a trace sends to the chat, in order.
Sent(trace) ==
    SelectSeq(trace, LAMBDA e : e[1] \in {"send_message", "send_photo"})

\* C11: an update other than the stop command never ends a started
\* conversation: whatever the handler that takes it, and whether the parse
\* or the collaborator fails, the chat is afterwards in Home, Reports or
\* Trends.
C11_EndsOnlyViaStop ==
    (step.handled /\ step.before # <<>> /\ step.update # Command("stop")) =>
        After \in {<<HOME>>, <<REPORTS>>, <<TRENDS>>}

\* The plot of a well-formed trend request fails with an exception nobody
\* expects, and the chat is still in Trends.
C11_Witness ==
    /\ step.handled
    /\ step.before = <<TRENDS>>
    /\ step.callback = "cb_trends_request"
    /\ step.exc = "Exception"
    /\ After = <<TRENDS>>

\* C12: when the callback of an update raises a fatal ParserError, or a
\* collaborator raises (the KeyError that plot_trend raises for a statistic
\* it has not is caught by the callback and is no such failure), the chat is
\* sent the something-went-wrong text and nothing after it, its state is
\* the same as before the update, and the dispatcher takes the next update.
C12_UnexpectedFailure ==
    (step.handled /\ step.exc \notin {"none", "NotImplementedError"}) =>
        /\ step.trace # <<>>
        /\ step.trace[Len(step.trace)] = <<"send_message", <<"Si e' verificato un errore">>>>
        /\ Len(Sent(step.trace)) = 1
        /\ After = step.before
        /\ ENABLED Next

\* The date resolver fails on the date of a report request: the parse
\* raises ParserError, and Reports is kept.
C12_Witness ==
    /\ step.handled
    /\ step.before = <<REPORTS>>
    /\ step.callback = "cb_report_request"
    /\ step.exc = "ParserError"
    /\ After = <<REPORTS>>

\* C13: in Trends, when the trend request parses and plot_trend raises
\* KeyError, the chat is sent one message, the text that says which
\* statistics the location has, no photo, and stays in Trends.
C13_StatisticUnavailable ==
    (/\ step.handled
     /\ step.before = <<TRENDS>>
     /\ Matches("trend_request")
     /\ Request("TrendRequestParser").ret
     /\ step.env = "KeyError") =>
        LET r == Request("TrendRequestParser").self._result[2]
        IN  /\ step.exc = "none"
            /\ Sent(step.trace) =
                   send_message(<<"Non ci sono dati; disponibili", r[1], r[2]>>)
            /\ After = <<TRENDS>>

C13_Witness ==
    /\ step.handled
    /\ step.before = <<TRENDS>>
    /\ step.env = "KeyError"
    /\ step.update = Text(<<<<<<"totale positivi">>>>>>)
    /\ \E i \in 1..Len(step.trace) :
           step.trace[i] =
               <<"plot_trend", <<"stat", <<"totale_positivi">>>>,
                 Location(<<"italia">>, "stato"),
                 DateInterval(Date("24/02/2020"), Date("oggi"))>>
    /\ After = <<TRENDS>>

(***************************************************************************)
(* More properties of the parsers, checked under ParserSpec                *)
(***************************************************************************)
\* The statement that after a parse call that returned, success or failure,
\* the instance holds the one and not the other of result and message.
C14_OutcomeExclusivity ==
    (last.called /\ ~last.raised) =>
        /\ parser.status => (parser._result # None /\ parser.error = None)
        /\ ~parser.status => (parser.error # None /\ parser._result = None)

\* C14: a parse call populates the variant of its own outcome and leaves
\* the field of the other variant as it was before the call: on success
\* the instance holds the value convert returned and the error it held
\* before, on failure the message of this failure and the _result it held
\* before (None for both on a fresh instance).
C14_VariantOfTheCall ==
    [][last'.called =>
          /\ last'.conv.exc = "none" =>
                /\ parser'.status = TRUE
                /\ parser'._result = last'.conv.value
                /\ parser'.error = parser.error
          /\ last'.conv.exc = "ConversionError" =>
                /\ parser'.status = FALSE
                /\ parser'.error =
                       make_error_message(parser.kind, last'.conv.args, last'.string)
                /\ parser'._result = parser._result]_vars

\* A success on an instance that failed before: the message of the earlier
\* failure is still in error.
C14_Witness ==
    /\ last.called
    /\ parser.status = TRUE
    /\ parser._result # None
    /\ parser.error # None

\* The last string, parsed by a new instance of the kind of the parser.
Fresh == parse(NewParser(parser.kind), last.string)

C16_StructuralMismatch ==
    (/\ last.called
     /\ parser.kind \in ComposedKinds
     /\ split(parser.kind, last.string).exc = "none"
     /\ Len(LastFields) # Len(subparsers(parser.kind))) =>
        /\ last.conv.exc = "ParserError"
        /\ last.conv.args = <<"Cannot parse fields">>
        /\ last.conv.trace = <<>>
        /\ last.raised
        /\ ~last.ret
        /\ parser.status = FALSE
        /\ got.read => got.raised

\* One field, a known location, given to a parser of two sub-parsers.
C16_Witness ==
    /\ last.called
    /\ parser.kind = "FieldsParser"
    /\ last.string = <<<<<<"roma">>>>>>
    /\ Len(LastFields) = 1
    /\ last.raised
    /\ got.read

\* The call last made is on the trend request parser, with a statistic
\* field its sub-parser takes and a location field that is no known
\* location.
UnknownLocationCall ==
    /\ ComposedCall
    /\ parser.kind = "TrendRequestParser"
    /\ Alone(parser.kind, LastFields, 1).ret
    /\ ~Alone(parser.kind, LastFields, 2).ret

\* The statement that, on such a call, neither the statistic nor the
\* interval sub-parser is invoked.
C17_StatAndIntervalNeverInvoked ==
    UnknownLocationCall =>
        /\ last.conv.exc = "ConversionError"
        /\ last.conv.args
              = <<1, LastFields[2], <<"Non riconosco come un luogo valido", LastFields[2]>>>>
        /\ \A n \in 1..Len(last.conv.trace) :
              last.conv.trace[n][1] # "parse"
                 \/ last.conv.trace[n][2] \notin {"StatParser", "IntervalParser"}

\* C17: for a trend request whose statistic field is valid and whose
\* location field is no known location, the parser fails with an error of
\* index 1, the location field and the message of the location parser; the
\* statistic sub-parser is invoked once, on field 0 and before the location
\* sub-parser, and succeeds; the interval sub-parser and its date
\* sub-parsers are never invoked.
C17_UnknownLocation ==
    UnknownLocationCall =>
        /\ last.conv.exc = "ConversionError"
        /\ last.conv.args
              = <<1, LastFields[2], <<"Non riconosco come un luogo valido", LastFields[2]>>>>
        /\ last.conv.trace
              = <<<<"parse", "StatParser", LastFields[1]>>,
                  <<"parse", "LocationParser", LastFields[2]>>>>
        /\ ~last.raised
        /\ ~last.ret
        /\ parser.error = <<"Non riconosco come un luogo valido", LastFields[2]>>

C17_Witness ==
    /\ last.called
    /\ parser.kind = "TrendRequestParser"
    /\ last.string = <<<<<<"totale positivi">>, <<"marte">>, <<"ieri", "oggi">>>>>>
    /\ last.conv.exc = "ConversionError"
    /\ last.conv.args[1] = 1
    /\ Len(last.conv.trace) = 2

\* C18: LocationParser succeeds on a string if and only if the string,
\* after alias resolution, is the country or is among the regions or the
\* provinces; the Location it gives has the resolved name and the tier of
\* the first of the three tests the name passes, in the order country,
\* region, province.
C18_LocationTier ==
    (last.called /\ parser.kind = "LocationParser") =>
        LET resolved == resolve_alias(last.string)
            known == resolved = country \/ resolved \in regions \/ resolved \in provinces
            tier == IF resolved = country THEN "stato"
                    ELSE IF resolved \in regions THEN "regione"
                    ELSE "provincia"
        IN  /\ ~last.raised
            /\ last.ret <=> known
            /\ parser.status <=> known
            /\ known => parser._result = Location(resolved, tier)

\* A name that is among the regions and among the provinces.
C18_Witness ==
    /\ last.called
    /\ parser.kind = "LocationParser"
    /\ last.string = <<"trento">>
    /\ <<"trento">> \in regions \cap provinces
    /\ parser._result = Location(<<"trento">>, "regione")

\* The pattern a request parser splits on.
PatternOf(kind) ==
    IF kind = "ReportRequestParser" THEN "report_request" ELSE "trend_request"

\* The fields the sub-parsers of a request parser are to be given, from the
\* parts re.split made of the request: the groups of the match, with
\* "oggi" for a date left out, the country for a location left out and
\* "24/02/2020 - oggi" for an interval left out.
FieldsWithDefaults(kind, parts) ==
    IF kind = "ReportRequestParser"
    THEN <<parts[2],
           IF parts[3] = NoGroup THEN <<"oggi">> ELSE parts[3]>>
    ELSE <<parts[2],
           IF parts[3] = NoGroup THEN country ELSE parts[3],
           IF parts[4] = NoGroup THEN <<"24/02/2020", "oggi">> ELSE parts[4]>>

\* How many sub-parsers run on the fields: up to the first that does not
\* succeed, or all of them.
Reached(kind, fields) ==
    IF \E i \in 1..Len(fields) : FirstToStop(kind, fields, i)
    THEN CHOOSE i \in 1..Len(fields) : FirstToStop(kind, fields, i)
    ELSE Len(fields)

\* C19: the request parsers give their sub-parsers the groups of the match
\* as they are, and for a group left out its default: "oggi" for the date
\* of a report request, the country for the location and "24/02/2020 -
\* oggi" for the interval of a trend request; the fields are always as many
\* as the sub-parsers, 2 for a report request and 3 for a trend request.
C19_DefaultSubstitution ==
    (/\ last.called
     /\ parser.kind \in {"ReportRequestParser", "TrendRequestParser"}
     /\ split(parser.kind, last.string).exc = "none") =>
        LET fields == FieldsWithDefaults(parser.kind,
                                         re_split(PatternOf(parser.kind), last.string))
            calls == CallsUpTo(parser.kind, fields, Reached(parser.kind, fields))
        IN  /\ Len(LastFields) = Len(subparsers(parser.kind))
            /\ Len(LastFields) = IF parser.kind = "ReportRequestParser" THEN 2 ELSE 3
            /\ Len(last.conv.trace) >= Len(calls)
            /\ SubSeq(last.conv.trace, 1, Len(calls)) = calls

\* A trend request of a statistic alone: the location is the country and
\* the interval goes from 24/02/2020 to today.
C19_Witness ==
    /\ last.called
    /\ parser.kind = "TrendRequestParser"
    /\ last.string = <<<<<<"totale positivi">>>>>>
    /\ re_split("trend_request", last.string)[3] = NoGroup
    /\ re_split("trend_request", last.string)[4] = NoGroup
    /\ parser.status = TRUE
    /\ parser._result =
           List(<<<<"stat", <<"totale_positivi">>>>,
                  Location(<<"italia">>, "stato"),
                  DateInterval(Date("24/02/2020"), Date("oggi"))>>)

CallbackNames ==
    {"cb_start", "cb_stop", "cb_home", "cb_prompt_start", "cb_unknown_request",
     "cb_home_help", "cb_info", "cb_report", "cb_reports_help", "cb_report_request",
     "cb_trends", "cb_trends_help", "cb_trends_request"}

\* C21: the state ERROR is never reached: every chat either has no
\* conversation or is in Home, Reports or Trends, and no callback, run on
\* the update last handled, returns ERROR.
C21_ErrorNeverReached ==
    /\ \A chat \in Chats : conv[chat] \in {<<>>, <<HOME>>, <<REPORTS>>, <<TRENDS>>}
    /\ step.handled =>
          \A name \in CallbackNames :
              Callback(name, step.update, step.env).value # Int_(ERROR)

\* Both chats have a conversation, and the last update was one no handler
\* of its state takes.
C21_Witness ==
    /\ step.handled
    /\ step.callback = "cb_unknown_request"
    /\ conv["chat1"] = <<TRENDS>>
    /\ conv["chat2"] = <<REPORTS>>

\* The places of the calls of a collaborator in the trace of the last update.
CallsOf(collaborator) ==
    {i \in 1..Len(step.trace) : step.trace[i][1] = collaborator}

\* C22: core.get_report is called only on an update handled in Reports
\* whose text the report request parser parses with success, once, with the
\* location and the date parsed, and core.plot_trend only on an update
\* handled in Trends whose text the trend request parser parses with
\* success, once, with the statistic, the location and the interval parsed;
\* when the parse of a request fails, no collaborator is called and one
\* message is sent.
C22_CollaboratorsAfterSuccess ==
    step.handled =>
        /\ CallsOf("get_report") # {} =>
              /\ step.before = <<REPORTS>>
              /\ Matches("report_request")
              /\ Request("ReportRequestParser").ret
              /\ Cardinality(CallsOf("get_report")) = 1
              /\ \A i \in CallsOf("get_report") :
                    /\ i > 1
                    /\ step.trace[1][1] = "parse"
                    /\ <<step.trace[i][2], step.trace[i][3]>>
                          = Request("ReportRequestParser").self._result[2]
              /\ CallsOf("plot_trend") = {}
        /\ CallsOf("plot_trend") # {} =>
              /\ step.before = <<TRENDS>>
              /\ Matches("trend_request")
              /\ Request("TrendRequestParser").ret
              /\ Cardinality(CallsOf("plot_trend")) = 1
              /\ \A i \in CallsOf("plot_trend") :
                    /\ i > 1
                    /\ step.trace[1][1] = "parse"
                    /\ <<step.trace[i][2], step.trace[i][3], step.trace[i][4]>>
                          = Request("TrendRequestParser").self._result[2]
              /\ CallsOf("get_report") = {}
        /\ (step.callback = "cb_report_request" /\ ~Request("ReportRequestParser").ret) =>
              /\ CallsOf("get_report") \cup CallsOf("plot_trend") = {}
              /\ Len(Sent(step.trace)) = 1
        /\ (step.callback = "cb_trends_request" /\ ~Request("TrendRequestParser").ret) =>
              /\ CallsOf("get_report") \cup CallsOf("plot_trend") = {}
              /\ Len(Sent(step.trace)) = 1
        /\ step.callback \notin {"cb_report_request", "cb_trends_request"} =>
              CallsOf("get_report") \cup CallsOf("plot_trend") = {}

\* A report request in Reports: the parser succeeds, and get_report is
\* called with the location and the date.
C22_Witness ==
    /\ step.handled
    /\ step.before = <<REPORTS>>
    /\ step.update = Text(<<<<<<"Roma">>, <<"ieri">>>>>>)
    /\ step.env = "ok"
    /\ \E i \in 1..Len(step.trace) :
           step.trace[i]
              = <<"get_report", Location(<<"roma">>, "provincia"), Date("ieri")>>
    /\ Len(Sent(step.trace)) = 1

\* C23: an update never takes a chat from Reports to Trends or from Trends
\* to Reports: an update that brings a chat into Reports or Trends finds it
\* in Home, and an update that takes a chat out of Reports or Trends is
\* the start or the home command and leaves it in Home.
C23_EnteredOnlyFromHome ==
    (step.handled /\ After # step.before) =>
        /\ After \in {<<REPORTS>>, <<TRENDS>>} => step.before = <<HOME>>
        /\ step.before \in {<<REPORTS>>, <<TRENDS>>} =>
              /\ After = <<HOME>>
              /\ step.update \in {Command("start"), Command("home")}

\* The chat leaves Trends for Home on the home command.
C23_Witness ==
    /\ step.handled
    /\ step.before = <<TRENDS>>
    /\ step.update = Command("home")
    /\ After = <<HOME>>

\* C24: a chat has no conversation until it sends the start command.  While
\* it has none, the start command is answered by cb_start and puts it in
\* Home; every other update is answered with the conversation-not-active
\* text and nothing else, with no request parsed and no collaborator
\* called, and leaves the chat without a conversation.
C24_InactiveBeforeStart ==
    /\ ~step.handled => \A chat \in Chats : conv[chat] = <<>>
    /\ (step.handled /\ step.before = <<>>) =>
          /\ step.exc = "none"
          /\ step.update = Command("start") =>
                /\ step.callback = "cb_start"
                /\ After = <<HOME>>
          /\ step.update # Command("start") =>
                /\ step.callback = "cb_prompt_start"
                /\ step.trace = send_message(<<"La conversazione non e' attiva">>)
                /\ After = <<>>
          /\ After # <<>> => After = <<HOME>>

\* A text that is a report request and a trend request, sent by a chat
\* that has not sent the start command.
C24_Witness ==
    /\ step.handled
    /\ step.before = <<>>
    /\ step.update = Text(<<<<<<"totale positivi">>>>>>)
    /\ step.callback = "cb_prompt_start"
    /\ After = <<>>

====
